---- MODULE Spec2Model ----
(***************************************************************************)
(* Java architecture analyzer: walker, kind classification and importance *)
(* scorer (file_analyzer.py, models.py), the Gateway with its retry and    *)
(* rate limit, LLM response reconciliation and run loop (llm_analyzer.py), *)
(* path normalisation (file_utils.py), the report writer                   *)
(* (report_generator.py) and the analyze command (cli.py).                 *)
(*                                                                         *)
(* Six specifications share the variables: Spec (the analyze command from  *)
(* analyze_files on), SpecScore (one content scored), SpecGroup (one reply *)
(* of the Gateway reconciled), SpecWalk (walker and file selection),       *)
(* SpecGateway (calls through rate limiter and retry) and SpecReport       *)
(* (generate_report step by step); each leaves the others' variables idle. *)
(*                                                                         *)
(* Text is modelled as a sequence of tokens, each token standing for the   *)
(* literal substring of the same spelling ("NL" is a newline, "SP" a       *)
(* blank, "FENCE" three backticks).  A file content is a sequence of       *)
(* chunks <<tok, n>>: the token repeated n times.                          *)
(* Scores are exact rationals kept as integers over the denominator Scale. *)
(* A response element carries the keys file_path and confidence_score (or  *)
(* lacks them); its list fields are left out, so a Finding is a path and a *)
(* confidence.  Paths are those of a POSIX host.                           *)
(***************************************************************************)
EXTENDS Integers, Sequences, FiniteSets, TLC

VARIABLES
    content, importance, spc,          \* scorer: file content, its FileImportance
    file_type,                         \* scorer: the kind _determine_file_type finds
    gfiles, groot, greply, gout, gpc,  \* one LLM round trip: group, root, reply, result
    files,              \* analyze: the files handed to analyze_files
    disk_ok,            \* analyze: whether every file operation of generate_report succeeds
    project_root,       \* LLMAnalyzer.project_root
    file_groups, gi,    \* analyze_files: the groups, in order, and the one in hand
    response,           \* the Gateway's reply to the call in flight
    analysis_results,   \* analyze_files: the Findings collected so far
    project_summary,    \* analyze_files: the architecture summary
    log,                \* the last message logged at warning or error level
    llm_calls,          \* completion calls made to the Gateway
    analysis,           \* the ProjectAnalysis analyze_files returned
    report,             \* the content at the destination path
    exit_status,        \* how the analyze command ended
    pc,                 \* the command's position
    ranalysis,          \* generate_report: the ProjectAnalysis it is given
    previous,           \* generate_report: the destination's content on entry
    dest,               \* the file at output_path
    temp,               \* the file at temp_path (output_path + ".tmp")
    report_content,     \* generate_report: the assembled text
    err,                \* generate_report: the exception in flight ("" for none)
    fallback,           \* generate_report: how the error-report write went
    wpc,                \* generate_report: position
    exit_code,          \* the analyze command's exit status
    console,            \* the analyze command's last message
    tree,               \* the files under the project root, in os.walk order
    max_files,          \* analyze: the --max-files option
    java_files,         \* what analyze_project returned
    selected,           \* analyze: the files handed to analyze_files
    kpc,                \* analyze: position between walker and LLM stage
    now,                \* the clock (time.monotonic), in seconds
    last_reset,         \* rate limiter: when its current period began
    num_calls,          \* rate limiter: calls counted in the current period
    resets,             \* the times at which a period of the limiter began
    calls_made,         \* calls of self._call_llm made so far
    entered,            \* the calls let through to the retrying _call_llm: when, and
                        \* whether the caller slept before
    attempt_number,     \* retry: number of the attempt in hand
    outcomes,           \* the current call's provider requests: how each ended
    attempt_times,      \* the current call's provider requests: when each was sent
    requests,           \* every request sent to the provider so far: when
    result,             \* how the last call of self._call_llm ended
    sleep_for,          \* the period_remaining a RateLimitException carries
    lpc                 \* self._call_llm: position

svars == <<content, importance, spc, file_type>>
gvars == <<gfiles, groot, greply, gout, gpc>>
rvars == <<files, disk_ok, project_root, file_groups, gi, response, analysis_results,
           project_summary, log, llm_calls, analysis, report, exit_status, pc>>
wvars == <<ranalysis, previous, dest, temp, report_content, err, fallback, wpc,
           exit_code, console>>
kvars == <<tree, max_files, java_files, selected, kpc>>
lvars == <<now, last_reset, num_calls, resets, calls_made, entered, attempt_number,
           outcomes, attempt_times, requests, result, sleep_for, lpc>>
xvars == <<wvars, kvars, lvars>>
vars == <<svars, gvars, rvars, xvars>>

(***************************************************************************)
(* Bounds of the model.                                                    *)
(***************************************************************************)
MaxChunks == 2
MaxElems == 3
MaxRunElems == 2
MaxFiles == 4
MaxEntries == 3
MaxCalls == 4
MaxTime == 6

\* the settings the model runs with: RATE_LIMIT_CALLS and RATE_LIMIT_PERIOD
\* are read from the environment (config.py: 60 calls per 60 seconds)
RATE_LIMIT_CALLS == 2
RATE_LIMIT_PERIOD == 5

Min(a, b) == IF a <= b THEN a ELSE b

RECURSIVE SumSeq(_)
SumSeq(s) == IF s = <<>> THEN 0 ELSE Head(s) + SumSeq(Tail(s))

(***************************************************************************)
(* File contents.                                                          *)
(***************************************************************************)
Tokens == {"public ", "private ", "{", "}", "NL", "import ", "@", "@Service",
           "DAO", "public static void main(", "@Configuration", "x",
           "interface ", "Interface ", "enum ", "class "}

Reps == {1, 11, 21, 501}

Chunks == Tokens \X Reps

Contents == UNION {[1..n -> Chunks] : n \in 0..MaxChunks}

\* str.count(needle) on one token: occurrences of needle in the token text
CountInToken(tok, needle) ==
    CASE needle = "public "  -> IF tok \in {"public ", "public static void main("} THEN 1 ELSE 0
      [] needle = "private " -> IF tok = "private " THEN 1 ELSE 0
      [] needle = "protected " -> 0
      [] needle = "{"        -> IF tok = "{" THEN 1 ELSE 0
      [] needle = "}"        -> IF tok = "}" THEN 1 ELSE 0
      [] needle = "NL"       -> IF tok = "NL" THEN 1 ELSE 0
      [] needle = "import "  -> IF tok = "import " THEN 1 ELSE 0
      [] needle = "@"        -> IF tok \in {"@", "@Service", "@Configuration"} THEN 1 ELSE 0
      [] needle = "Service"  -> IF tok = "@Service" THEN 1 ELSE 0
      [] needle = "DAO"      -> IF tok = "DAO" THEN 1 ELSE 0
      [] needle = "public static void main(" ->
                                IF tok = "public static void main(" THEN 1 ELSE 0
      [] needle = "@Configuration" -> IF tok = "@Configuration" THEN 1 ELSE 0
      [] needle = "@Config"  -> IF tok = "@Configuration" THEN 1 ELSE 0
      [] needle = "interface " -> IF tok = "interface " THEN 1 ELSE 0
      [] needle = "enum "    -> IF tok = "enum " THEN 1 ELSE 0
      [] needle = "class "   -> IF tok = "class " THEN 1 ELSE 0
      [] OTHER               -> 0

\* content.count(needle)
Count(c, needle) ==
    SumSeq([i \in 1..Len(c) |-> c[i][2] * CountInToken(c[i][1], needle)])

\* needle in content
Contains(c, needle) == Count(c, needle) > 0

\* len(content.splitlines())
LineCount(c) ==
    Count(c, "NL") + (IF c # <<>> /\ c[Len(c)][1] # "NL" THEN 1 ELSE 0)

(***************************************************************************)
(* Importance scorer.                                                      *)
(***************************************************************************)
Scale == 3 * 13 * 1000

_is_main_class(c) == Contains(c, "public static void main(")

entry_point_indicators ==
    {"@SpringBootApplication", "@Application", "extends Application",
     "implements Application", "public static void main(", "@WebServlet",
     "@Controller", "@RestController"}

_is_entry_point(c) == \E ind \in entry_point_indicators : Contains(c, ind)

config_indicators ==
    {"@Configuration", "@Config", "extends Configuration",
     "implements Configuration", "application.properties", "application.yml",
     "application.yaml"}

_is_config_file(c) == \E ind \in config_indicators : Contains(c, ind)

\* (min(method_count/10, 1) + min(nested_count/20, 1) + min(loc/500, 1)) / 3
_calculate_complexity_score(c) ==
    LET method_count == Count(c, "public ") + Count(c, "private ") + Count(c, "protected ")
        nested_count == Count(c, "{") - Count(c, "}")
        loc          == LineCount(c)
    IN  13 * (Min(100 * method_count, 1000)
              + Min(50 * nested_count, 1000)
              + Min(2 * loc, 1000))

\* (min(import_count/20, 1) + min(annotation_count/10, 1)) / 2
_calculate_dependency_score(c) ==
    975 * Min(Count(c, "import "), 20) + 1950 * Min(Count(c, "@"), 10)

business_indicators ==
    {"Service", "Repository", "DAO", "Manager", "Handler", "Processor",
     "Factory", "Builder", "Strategy", "Command", "Observer", "State",
     "Template"}

\* min(score / len(business_indicators), 1)
_calculate_business_logic_score(c) ==
    LET score == Cardinality({k \in business_indicators : Contains(c, k)})
    IN  Min((Scale \div Cardinality(business_indicators)) * score, Scale)

B2I(b) == IF b THEN 1 ELSE 0

\* mutant: the weighted sum is added to the total the object already holds
calculate_total_score_Accumulates(imp) ==
    [imp EXCEPT !.total_score =
          imp.total_score
        + B2I(imp.is_main_class) * 5 * Scale
        + B2I(imp.is_entry_point) * 4 * Scale
        + B2I(imp.is_config_file) * 3 * Scale
        + imp.complexity_score * 2
        + imp.dependency_score * 2
        + imp.business_logic_score * 3]

\* FileImportance.calculate_total_score
calculate_total_score(imp) ==
    [imp EXCEPT !.total_score =
          B2I(imp.is_main_class) * 5 * Scale
        + B2I(imp.is_entry_point) * 4 * Scale
        + B2I(imp.is_config_file) * 3 * Scale
        + imp.complexity_score * 2
        + imp.dependency_score * 2
        + imp.business_logic_score * 3]

\* FileImportance(): the model's defaults
FileImportance ==
    [is_main_class |-> FALSE, is_entry_point |-> FALSE, is_config_file |-> FALSE,
     complexity_score |-> 0, dependency_score |-> 0, business_logic_score |-> 0,
     total_score |-> 0]

_calculate_file_importance(c) ==
    calculate_total_score(
        [FileImportance EXCEPT
            !.is_main_class = _is_main_class(c),
            !.is_entry_point = _is_entry_point(c),
            !.is_config_file = _is_config_file(c),
            !.complexity_score = _calculate_complexity_score(c),
            !.dependency_score = _calculate_dependency_score(c),
            !.business_logic_score = _calculate_business_logic_score(c)])

\* ---- the doubles the scorer computes ----
\* Python floats are IEEE 754 binary64: every division, sum and product of
\* the scorer is rounded to the nearest double. The scores above are the
\* values before rounding, in units of 1/Scale; two contents of equal total
\* before rounding can get different doubles (an empty file gets 0.0, a file
\* of one method, six closing braces and 100 lines gets 1.85e-17), and the
\* sort of the selection compares the doubles. A
\* natural number here is a sequence of limbs in base 2^15, lowest first, and
\* a double is <<sign, mantissa, exponent>>, standing for
\* sign * mantissa * 2^exponent with a mantissa of exactly 53 bits
\* (<<0, <<>>, 0>> for zero).

\* N * 2^k
ShiftLeft(N, k) ==
    LET a == k \div 15
        p == 2 ^ (k % 15)
        L(i) == IF i >= 1 /\ i <= Len(N) THEN N[i] ELSE 0
    IN  SubSeq([i \in 1..(Len(N) + a + 1) |->
                   ((L(i - a) * p) % 32768) + ((L(i - a - 1) * p) \div 32768)],
               1, Len(N) + a + 1)

\* A + B
AddLimbs(A, B) ==
    LET n == (IF Len(A) >= Len(B) THEN Len(A) ELSE Len(B)) + 1
        LA(i) == IF i >= 1 /\ i <= Len(A) THEN A[i] ELSE 0
        LB(i) == IF i >= 1 /\ i <= Len(B) THEN B[i] ELSE 0
        carry[i \in 0..n] ==
            IF i = 0 THEN 0 ELSE (LA(i) + LB(i) + carry[i - 1]) \div 32768
    IN  SubSeq([i \in 1..n |-> (LA(i) + LB(i) + carry[i - 1]) % 32768], 1, n)

\* A - B, for A >= B
SubLimbs(A, B) ==
    LET n == (IF Len(A) >= Len(B) THEN Len(A) ELSE Len(B))
        LA(i) == IF i >= 1 /\ i <= Len(A) THEN A[i] ELSE 0
        LB(i) == IF i >= 1 /\ i <= Len(B) THEN B[i] ELSE 0
        borrow[i \in 0..n] ==
            IF i = 0 THEN 0
            ELSE IF LA(i) - LB(i) - borrow[i - 1] < 0 THEN 1 ELSE 0
    IN  SubSeq([i \in 1..n |-> (LA(i) - LB(i) - borrow[i - 1] + 32768) % 32768], 1, n)

\* A < B
LessLimbs(A, B) ==
    LET n == (IF Len(A) >= Len(B) THEN Len(A) ELSE Len(B))
        LA(i) == IF i >= 1 /\ i <= Len(A) THEN A[i] ELSE 0
        LB(i) == IF i >= 1 /\ i <= Len(B) THEN B[i] ELSE 0
    IN  \E i \in 1..n : LA(i) < LB(i) /\ \A j \in (i + 1)..n : LA(j) = LB(j)

\* the double nearest to sign * N * 2^e / d, ties to the even mantissa
\* (0 < d < 512): the rounding of every float operation
RoundToDouble(sign, N, d, e) ==
    LET BitLength(X) ==
            LET top == {i \in 1..Len(X) : X[i] # 0}
                h   == CHOOSE i \in top : \A j \in top : j <= i
            IN  IF top = {} THEN 0
                ELSE 15 * (h - 1) + (CHOOSE b \in 1..15 : 2 ^ (b - 1) <= X[h] /\ X[h] < 2 ^ b)
        ShiftRight(X, k) ==
            LET a == k \div 15
                p == 2 ^ (k % 15)
                L(i) == IF i >= 1 /\ i <= Len(X) THEN X[i] ELSE 0
                n == IF Len(X) > a THEN Len(X) - a ELSE 0
            IN  SubSeq([i \in 1..n |->
                           (L(i + a) \div p) + ((L(i + a + 1) % p) * (32768 \div p))],
                       1, n)
        \* the 53 highest bits of the quotient Q of N * 2^k by d, rounded up
        \* when the bits below them (and the remainder, rest) are more than a
        \* half, or a half with an odd mantissa
        Nearest(Q, rest, k) ==
            LET drop == BitLength(Q) - 53
                Carried(M) ==
                    IF BitLength(M) = 54
                    THEN <<sign, SubSeq(ShiftRight(M, 1), 1, 4), e - k + drop + 1>>
                    ELSE <<sign, SubSeq(M, 1, 4), e - k + drop>>
                Rounded(M, G) ==
                    Carried(IF /\ G[1] % 2 = 1
                               /\ \/ rest
                                  \/ LessLimbs(ShiftLeft(G, drop - 1), Q)
                                  \/ M[1] % 2 = 1
                            THEN AddLimbs(M, <<1>>) ELSE M)
            IN  Rounded(ShiftRight(Q, drop), ShiftRight(Q, drop - 1))
        Divided(Nk, k) ==
            LET rem[i \in 1..(Len(Nk) + 1)] ==
                    IF i = Len(Nk) + 1 THEN 0 ELSE (rem[i + 1] * 32768 + Nk[i]) % d
            IN  Nearest(SubSeq([i \in 1..Len(Nk) |-> (rem[i + 1] * 32768 + Nk[i]) \div d],
                               1, Len(Nk)),
                        rem[1] # 0, k)
        Scaled(k) == Divided(ShiftLeft(N, k), k)
    IN  IF sign = 0 \/ BitLength(N) = 0 THEN <<0, <<>>, 0>>
        ELSE Scaled(IF BitLength(N) < 66 THEN 66 - BitLength(N) ELSE 0)

\* x + y
FloatAdd(x, y) ==
    LET e == Min(x[3], y[3])
        A == ShiftLeft(x[2], x[3] - e)
        B == ShiftLeft(y[2], y[3] - e)
    IN  IF x[1] = 0 THEN y
        ELSE IF y[1] = 0 THEN x
        ELSE IF x[1] = y[1] THEN RoundToDouble(x[1], AddLimbs(A, B), 1, e)
        ELSE IF LessLimbs(A, B) THEN RoundToDouble(y[1], SubLimbs(B, A), 1, e)
        ELSE IF LessLimbs(B, A) THEN RoundToDouble(x[1], SubLimbs(A, B), 1, e)
        ELSE <<0, <<>>, 0>>

\* importance.total_score as the double the scorer computes for content c
FloatTotalScore(c) ==
    LET Quotient(p, q) == \* min(p / q, 1.0)
            IF p >= q THEN <<1, <<0, 0, 0, 128>>, -52>>
            ELSE RoundToDouble(IF p < 0 THEN -1 ELSE IF p > 0 THEN 1 ELSE 0,
                               IF p < 0 THEN <<(-p) % 32768, (-p) \div 32768>>
                               ELSE <<p % 32768, p \div 32768>>, q, 0)
        Times(x, n) == IF x[1] = 0 THEN x ELSE <<x[1], x[2], x[3] + n>>  \* x * 2^n
        Divide(x, d) == RoundToDouble(x[1], x[2], d, x[3])                \* x / d
        Triple(x) ==                                                      \* x * 3.0
            RoundToDouble(x[1], AddLimbs(x[2], ShiftLeft(x[2], 1)), 1, x[3])
        complexity ==
            Divide(FloatAdd(FloatAdd(Quotient(Count(c, "public ") + Count(c, "private ")
                                                 + Count(c, "protected "), 10),
                                     Quotient(Count(c, "{") - Count(c, "}"), 20)),
                            Quotient(LineCount(c), 500)),
                   3)
        dependency ==
            Times(FloatAdd(Quotient(Count(c, "import "), 20),
                           Quotient(Count(c, "@"), 10)), -1)
        business ==
            Quotient(Cardinality({k \in business_indicators : Contains(c, k)}),
                     Cardinality(business_indicators))
        flags ==
            RoundToDouble(1, <<5 * B2I(_is_main_class(c)) + 4 * B2I(_is_entry_point(c))
                                 + 3 * B2I(_is_config_file(c))>>, 1, 0)
    IN  FloatAdd(FloatAdd(FloatAdd(flags, Times(complexity, 1)), Times(dependency, 1)),
                 Triple(business))

\* str.lower() on one token
LowerToken(tok) ==
    CASE tok = "DAO" -> "dao"
      [] tok = "@Service" -> "@service"
      [] tok = "@Configuration" -> "@configuration"
      [] tok = "Interface " -> "interface "
      [] OTHER -> tok

\* content.lower()
lower(c) == [i \in DOMAIN c |-> <<LowerToken(c[i][1]), c[i][2]>>]

\* mutant: the class keyword is looked for first
_determine_file_type_ClassFirst(c) ==
    LET content_lower == lower(c)
    IN  IF Contains(content_lower, "class ") THEN "class"
        ELSE IF Contains(content_lower, "interface ") THEN "interface"
        ELSE IF Contains(content_lower, "enum ") THEN "enum"
        ELSE "unknown"

_determine_file_type(c) ==
    LET content_lower == lower(c)
    IN  IF Contains(content_lower, "interface ") THEN "interface"
        ELSE IF Contains(content_lower, "enum ") THEN "enum"
        ELSE IF Contains(content_lower, "class ") THEN "class"
        ELSE "unknown"

(***************************************************************************)
(* Paths (file_utils.py).  A path, and a path string, is the sequence of   *)
(* its components; the empty sequence is the empty string and, for a       *)
(* project root, None.                                                      *)
(***************************************************************************)
NoRoot == <<>>

IsPrefix(r, p) == Len(r) <= Len(p) /\ SubSeq(p, 1, Len(r)) = r

\* Path.name
Name(p) == <<p[Len(p)]>>

\* sanitize_path on a POSIX host (os.name # 'nt')
sanitize_path(p, root) ==
    IF root # NoRoot
    THEN IF IsPrefix(root, p) THEN SubSeq(p, Len(root) + 1, Len(p)) ELSE Name(p)
    ELSE Name(p)

(***************************************************************************)
(* Source files (models.JavaFile).                                         *)
(***************************************************************************)
JavaFile(path, package, ftype) ==
    [path |-> path, package |-> package, file_type |-> ftype]

FileA == JavaFile(<<"proj", "src", "A.java">>, "p", "class")
FileB == JavaFile(<<"proj", "src", "B.java">>, "p", "class")
FileC == JavaFile(<<"proj", "src", "C.java">>, "p", "interface")
FileD == JavaFile(<<"lib", "A.java">>, "p", "class")

\* the groups handed to one LLM round trip, and the roots get_project_root finds
GroupLists ==
    {<<FileA>>, <<FileC>>, <<FileA, FileB>>, <<FileB, FileA>>,
     <<FileA, FileD>>, <<FileD, FileA>>}

Roots == {NoRoot, <<"proj">>}

(***************************************************************************)
(* Response text.  Every token is a record; an "obj" token is the text of  *)
(* one JSON object, with the keys in has and their values.  Confidence is  *)
(* in tenths (9 is 0.9, 15 is 1.5).                                        *)
(***************************************************************************)
Tok(t) == [t |-> t, has |-> {}, file_path |-> <<>>, confidence_score |-> 0]

Obj(has, fp, cs) ==
    [t |-> "obj", has |-> has,
     file_path |-> IF "file_path" \in has THEN fp ELSE <<>>,
     confidence_score |-> IF "confidence_score" \in has THEN cs ELSE 0]

IsSpace(tok) == tok.t \in {"NL", "SP"}

RECURSIVE lstrip(_)
lstrip(s) == IF s # <<>> /\ IsSpace(Head(s)) THEN lstrip(Tail(s)) ELSE s

RECURSIVE rstrip(_)
rstrip(s) ==
    IF s # <<>> /\ IsSpace(s[Len(s)]) THEN rstrip(SubSeq(s, 1, Len(s) - 1)) ELSE s

\* str.strip()
strip(s) == rstrip(lstrip(s))

\* s.startswith(<token text>)
startswith(s, t) == s # <<>> /\ s[1].t = t

\* index of the first token t in s, 0 when there is none
RECURSIVE IndexOf(_, _)
IndexOf(s, t) ==
    IF s = <<>> THEN 0
    ELSE IF Head(s).t = t THEN 1
    ELSE LET r == IndexOf(Tail(s), t) IN IF r = 0 THEN 0 ELSE r + 1

\* s.split('```', 2)[1] for s starting with a fence
SplitFence1(s) ==
    LET rest == Tail(s)
        j    == IndexOf(rest, "FENCE")
    IN  IF j = 0 THEN rest ELSE SubSeq(rest, 1, j - 1)

\* s.split('\n'): the pieces between newlines
RECURSIVE SplitNL(_)
SplitNL(s) ==
    LET j == IndexOf(s, "NL")
    IN  IF j = 0 THEN <<s>>
        ELSE <<SubSeq(s, 1, j - 1)>> \o SplitNL(SubSeq(s, j + 1, Len(s)))

\* s.splitlines(): no empty last line
splitlines(s) ==
    LET parts == SplitNL(s)
    IN  IF parts[Len(parts)] = <<>> THEN SubSeq(parts, 1, Len(parts) - 1) ELSE parts

\* '\n'.join(lines)
RECURSIVE JoinLines(_)
JoinLines(lines) ==
    IF lines = <<>> THEN <<>>
    ELSE IF Len(lines) = 1 THEN lines[1]
    ELSE lines[1] \o <<Tok("NL")>> \o JoinLines(Tail(lines))

\* json.loads: ok is FALSE on JSONDecodeError
JsonLoads(s) ==
    LET w == SelectSeq(s, LAMBDA tok : ~IsSpace(tok))
        n == Len(w)
        mid == SubSeq(w, 2, n - 1)
        IsList ==
            /\ n >= 2 /\ w[1].t = "[" /\ w[n].t = "]"
            /\ \/ Len(mid) = 0
               \/ /\ Len(mid) % 2 = 1
                  /\ \A i \in 1..Len(mid) :
                        mid[i].t = (IF i % 2 = 1 THEN "obj" ELSE ",")
    IN  IF n = 1 /\ w[1].t = "obj"
        THEN [ok |-> TRUE, is_array |-> FALSE, items |-> w]
        ELSE IF IsList
        THEN [ok |-> TRUE, is_array |-> TRUE,
              items |-> SelectSeq(mid, LAMBDA tok : tok.t = "obj")]
        ELSE [ok |-> FALSE, is_array |-> FALSE, items |-> <<>>]

(***************************************************************************)
(* Findings (models.LLMResponse).                                          *)
(***************************************************************************)
\* dict.get(key, default)
GetPath(el) == IF "file_path" \in el.has THEN el.file_path ELSE <<>>
GetConfidence(el) == IF "confidence_score" \in el.has THEN el.confidence_score ELSE 0

\* Field(ge=0.0, le=1.0)
ConfidenceValid(c) == 0 <= c /\ c <= 10

\* mutant: the Finding takes the path string the response carries
LLMResponse_ResponsePath(path, el) ==
    [file_path |-> GetPath(el), confidence_score |-> GetConfidence(el)]

LLMResponse(path, el) ==
    [file_path |-> path, confidence_score |-> GetConfidence(el)]

\* what a round trip hands back: raised, or the list of results; with the
\* last message logged once the Gateway's reply was in hand ("" when none
\* was), or the Gateway's own when the call raised
Returned(rs, msg) == [raised |-> FALSE, results |-> rs, log |-> msg]
Raised == [raised |-> TRUE, results |-> <<>>, log |-> "LLM API call failed"]

(***************************************************************************)
(* LLMAnalyzer: the two ways through one reply of the Gateway.             *)
(* A reply is [raised, text]: the text of the completion, or the error     *)
(* left after the retries.                                                 *)
(***************************************************************************)
\* next(f for f in files if sanitize_path(f.path, root) == file_path), 0 for None
MatchingFile(fs, root, fp) ==
    LET hits == {i \in 1..Len(fs) : sanitize_path(fs[i].path, root) = fp}
    IN  IF hits = {} THEN 0 ELSE CHOOSE i \in hits : \A j \in hits : i <= j

\* the markdown clean-up inlined in _analyze_file_group
CleanGroupResponse(text) ==
    LET c == strip(text)
    IN  IF startswith(c, "FENCE")
        THEN LET inner == SplitFence1(c)
             IN  strip(IF startswith(inner, "json") THEN Tail(inner) ELSE inner)
        ELSE c

\* the loop over results: a validation error in a matched element leaves the loop
ReconcileResults(fs, root, items) ==
    LET m(i) == MatchingFile(fs, root, GetPath(items[i]))
        matched == {i \in 1..Len(items) : m(i) # 0}
        F[i \in 0..Len(items)] ==
            IF i = 0 THEN <<>>
            ELSE IF i \in matched
                 THEN Append(F[i - 1], LLMResponse(fs[m(i)].path, items[i]))
                 ELSE F[i - 1]
    IN  IF \E i \in matched : ~ConfidenceValid(GetConfidence(items[i]))
        THEN Returned(<<>>, "Error analyzing file group")
        ELSE Returned(F[Len(items)],
                      IF matched # 1..Len(items)
                      THEN "Could not match file path in response" ELSE "")

\* mutant: a JSON parse error leaves _analyze_file_group as an exception
_analyze_file_group_ParseErrorRaises(fs, root, reply) ==
    IF fs = <<>> THEN Returned(<<>>, "")
    ELSE IF reply.raised THEN Returned(<<>>, "Error analyzing file group")
    ELSE IF strip(reply.text) = <<>> THEN Returned(<<>>, "Empty response from LLM")
    ELSE LET parsed == JsonLoads(CleanGroupResponse(reply.text))
         IN  IF ~parsed.ok
             THEN Raised
             ELSE ReconcileResults(fs, root, parsed.items)

_analyze_file_group(fs, root, reply) ==
    IF fs = <<>> THEN Returned(<<>>, "")
    ELSE IF reply.raised THEN Returned(<<>>, "Error analyzing file group")
    ELSE IF strip(reply.text) = <<>> THEN Returned(<<>>, "Empty response from LLM")
    ELSE LET parsed == JsonLoads(CleanGroupResponse(reply.text))
         IN  IF ~parsed.ok
             THEN Returned(<<>>, "Failed to parse LLM response as JSON")
             ELSE ReconcileResults(fs, root, parsed.items)

_extract_json_from_response(text) ==
    LET c == strip(text)
    IN  IF startswith(c, "FENCE")
        THEN LET lines == Tail(splitlines(c))
                 n == Len(lines)
             IN  JoinLines(IF n > 0 /\ startswith(lines[n], "FENCE")
                           THEN SubSeq(lines, 1, n - 1) ELSE lines)
        ELSE c

\* mutant: the completion call sits inside the try block
_analyze_single_file_CallInsideTry(file, reply) ==
    IF reply.raised THEN Returned(<<>>, "Error creating LLMResponse")
    ELSE LET parsed == JsonLoads(_extract_json_from_response(reply.text))
         IN  IF ~parsed.ok THEN Returned(<<>>, "Failed to parse LLM response")
             ELSE IF parsed.is_array \/ ~ConfidenceValid(GetConfidence(parsed.items[1]))
             THEN Returned(<<>>, "Error creating LLMResponse")
             ELSE Returned(<<LLMResponse(file.path, parsed.items[1])>>, "")

_analyze_single_file(file, reply) ==
    IF reply.raised THEN Raised
    ELSE LET parsed == JsonLoads(_extract_json_from_response(reply.text))
         IN  IF ~parsed.ok THEN Returned(<<>>, "Failed to parse LLM response")
             ELSE IF parsed.is_array \/ ~ConfidenceValid(GetConfidence(parsed.items[1]))
             THEN Returned(<<>>, "Error creating LLMResponse")
             ELSE Returned(<<LLMResponse(file.path, parsed.items[1])>>, "")

(***************************************************************************)
(* The replies the Gateway can hand back for a group shown under a root.   *)
(***************************************************************************)
ConfValues == {9, 15}

\* the paths the prompt shows, and a path of no file
ReplyPaths(fs, root) ==
    {sanitize_path(fs[i].path, root) : i \in 1..Len(fs)} \cup {<<"X.java">>}

Elements(fs, root) ==
    {Obj(has, fp, cs) :
        has \in SUBSET {"file_path", "confidence_score"},
        fp \in ReplyPaths(fs, root), cs \in ConfValues}

ElementLists(fs, root) ==
    UNION {[1..n -> Elements(fs, root)] : n \in 0..MaxElems}

RECURSIVE CommaJoin(_)
CommaJoin(els) ==
    IF els = <<>> THEN <<>>
    ELSE IF Len(els) = 1 THEN els
    ELSE <<els[1], Tok(",")>> \o CommaJoin(Tail(els))

\* the text of a JSON array of the elements
ArrayText(els) == <<Tok("[")>> \o CommaJoin(els) \o <<Tok("]")>>

\* texts that parse as JSON: arrays, and bare objects
JsonTexts(fs, root) ==
    {ArrayText(els) : els \in ElementLists(fs, root)}
        \cup {<<el>> : el \in Elements(fs, root)}

\* prose, an empty completion, a blank one
OtherTexts == {<<Tok("oops")>>, <<>>, <<Tok("SP"), Tok("NL")>>}

\* a code fence around a text: opening marker line, optional tag, closing marker line
Fenced(tag, text) ==
    <<Tok("FENCE")>> \o (IF tag = "" THEN <<>> ELSE <<Tok(tag)>>) \o <<Tok("NL")>>
        \o text \o <<Tok("NL"), Tok("FENCE")>>

FenceTags == {"", "json", "java"}

ReplyTexts(fs, root) ==
    LET plain == JsonTexts(fs, root) \cup OtherTexts
    IN  plain \cup {Fenced(tag, text) : tag \in FenceTags, text \in plain}

Reply(text) == [raised |-> FALSE, text |-> text]
GatewayError == [raised |-> TRUE, text |-> <<>>]

Replies(fs, root) ==
    {Reply(text) : text \in ReplyTexts(fs, root)} \cup {GatewayError}

(***************************************************************************)
(* analyze_files (llm_analyzer.py) and the analyze command (cli.py).       *)
(***************************************************************************)
\* a class like FileA and FileB, declared in another package
FileE == JavaFile(<<"proj", "src", "E.java">>, "q", "class")

Universe == {FileA, FileB, FileC, FileE}

IsInjective(f) == \A i, j \in DOMAIN f : i # j => f[i] # f[j]

\* the walker's output: distinct files, in any order
InputLists ==
    {l \in UNION {[1..n -> Universe] : n \in 0..Min(MaxFiles, Cardinality(Universe))} :
        IsInjective(l)}

\* get_project_root: the nearest ancestor directory holding a marker, or None
RootsOf(path) == {NoRoot} \cup {SubSeq(path, 1, k) : k \in 1..(Len(path) - 1)}

\* f"{file.file_type}:{file.package}"
GroupKey(f) == <<f.file_type, f.package>>

\* mutant: the group key is the kind alone
_group_files_KindOnly(fs) ==
    LET first == {i \in 1..Len(fs) :
                    \A j \in 1..(i - 1) : fs[j].file_type # fs[i].file_type}
        keysIn[i \in 0..Len(fs)] ==
            IF i = 0 THEN <<>>
            ELSE IF i \in first THEN Append(keysIn[i - 1], fs[i].file_type)
            ELSE keysIn[i - 1]
        keys == keysIn[Len(fs)]
    IN  [k \in 1..Len(keys) |-> SelectSeq(fs, LAMBDA f : f.file_type = keys[k])]

\* _group_files: the groups in order of first appearance, files in input order
_group_files(fs) ==
    LET first == {i \in 1..Len(fs) : \A j \in 1..(i - 1) : GroupKey(fs[j]) # GroupKey(fs[i])}
        keysIn[i \in 0..Len(fs)] ==
            IF i = 0 THEN <<>>
            ELSE IF i \in first THEN Append(keysIn[i - 1], GroupKey(fs[i]))
            ELSE keysIn[i - 1]
        keys == keysIn[Len(fs)]
    IN  [k \in 1..Len(keys) |-> SelectSeq(fs, LAMBDA f : GroupKey(f) = keys[k])]

\* _extract_quality_metrics: shown path -> number of quality issues
_extract_quality_metrics(results, root) ==
    [q \in {sanitize_path(results[i].file_path, root) : i \in 1..Len(results)} |-> 0]

\* _extract_design_patterns: the elements of the model name no pattern
_extract_design_patterns(results, root) == <<>>

ProjectAnalysis(path, summary, patterns, metrics, recs, results) ==
    [project_path |-> path, architecture_summary |-> summary,
     design_patterns |-> patterns, code_quality_metrics |-> metrics,
     recommendations |-> recs, file_analyses |-> results]

NoAnalysis == ProjectAnalysis(<<>>, "", <<>>, <<>>, <<"-">>, <<>>)

\* the analysis analyze_files returns for an empty list
EmptyAnalysis == ProjectAnalysis(<<>>, "", <<>>, <<>>, <<>>, <<>>)

NoFilesText == "No files were successfully analyzed."

\* the replies of the Gateway in a run: arrays and objects of elements with
\* both keys, prose, empty and blank completions, and the error after retries
RunElements(fs, root) ==
    {Obj({"file_path", "confidence_score"}, fp, 9) : fp \in ReplyPaths(fs, root)}
        \cup {Obj({"file_path", "confidence_score"}, sanitize_path(fs[1].path, root), 15)}

RunReplies(fs, root) ==
    {Reply(ArrayText(els)) :
        els \in UNION {[1..n -> RunElements(fs, root)] : n \in 0..MaxRunElems}}
        \cup {Reply(<<el>>) : el \in RunElements(fs, root)}
        \cup {Reply(text) : text \in OtherTexts}
        \cup {GatewayError}

NoReply == Reply(<<>>)

\* the destination before the command wrote it
NoReport == [kind |-> "none", file_analyses |-> <<>>]

\* no file at a path
NoFile ==
    [kind |-> "absent", complete |-> TRUE, project_path |-> <<>>, files_analyzed |-> 0,
     file_analyses |-> <<>>, message |-> ""]

RunInit ==
    /\ files \in InputLists
    /\ disk_ok \in BOOLEAN
    /\ project_root = NoRoot
    /\ file_groups = <<>> /\ gi = 0
    /\ response = NoReply
    /\ analysis_results = <<>>
    /\ project_summary = ""
    /\ log = ""
    /\ llm_calls = 0
    /\ analysis = NoAnalysis
    /\ report = NoReport
    /\ exit_status = "running"
    /\ pc = "analyze_files"

\* analyze_files, lines 79-99: the early return, the root, the groups
StartAnalysis ==
    /\ pc = "analyze_files"
    /\ IF files = <<>>
       THEN /\ analysis' = EmptyAnalysis
            /\ pc' = "generate_report"
            /\ UNCHANGED <<project_root, file_groups, gi>>
       ELSE /\ project_root' \in RootsOf(files[1].path)
            /\ file_groups' = _group_files(files)
            /\ gi' = 1
            /\ pc' = "call_llm"
            /\ UNCHANGED analysis
    /\ UNCHANGED <<svars, gvars, xvars, files, disk_ok, response, analysis_results, project_summary, log,
                   llm_calls, report, exit_status>>

\* _call_llm, line 74: every failed attempt is logged, so the last message
\* after a call is the Gateway's when an attempt failed (the call was retried
\* or raised), and what it was before otherwise
LogAfterCall(retried) == IF retried THEN "LLM API call failed" ELSE log

\* _call_llm for the group in hand: the Gateway answers, at once or after
\* failed attempts, or fails after its retries
GatewayReplies ==
    /\ pc = "call_llm"
    /\ response' \in RunReplies(file_groups[gi], project_root)
    /\ \E retried \in BOOLEAN : log' = LogAfterCall(retried \/ response'.raised)
    /\ llm_calls' = llm_calls + 1
    /\ pc' = "reply"
    /\ UNCHANGED <<svars, gvars, xvars, files, disk_ok, project_root, file_groups, gi, analysis_results,
                   project_summary, analysis, report, exit_status>>

\* what the loop body of analyze_files gets for the group in hand
GroupOutcome ==
    IF Len(file_groups[gi]) = 1
    THEN _analyze_single_file(file_groups[gi][1], response)
    ELSE _analyze_file_group(file_groups[gi], project_root, response)

\* the rest of the loop body: results appended, next group; an error that
\* leaves analyze_files reaches the command's handler, which aborts
ProcessGroup ==
    /\ pc = "reply"
    /\ LET out == GroupOutcome
       IN  /\ log' = IF out.log # "" THEN out.log ELSE log
           /\ IF out.raised
              THEN /\ exit_status' = "aborted"
                   /\ pc' = "done"
                   /\ UNCHANGED <<analysis_results, gi>>
              ELSE /\ analysis_results' = analysis_results \o out.results
                   /\ gi' = gi + 1
                   /\ pc' = IF gi < Len(file_groups) THEN "call_llm" ELSE "summary"
                   /\ UNCHANGED exit_status
    /\ response' = NoReply
    /\ UNCHANGED <<svars, gvars, xvars, files, disk_ok, project_root, file_groups, project_summary,
                   llm_calls, analysis, report>>

\* Python's None: message.content of a completion that has no content; no
\* text equals it
None == "<None>"

\* lines 334-339: what _call_llm returns (line 72: message.content, a text,
\* the empty text or None) is the summary as it is; a call that raised is
\* logged and gives the failure text
SummaryOutcomes ==
    {[summary |-> text, log |-> LogAfterCall(retried)] :
        text \in {"summary text", "", None}, retried \in BOOLEAN}
    \cup {[summary |-> "Failed to generate architecture summary.",
           log |-> "Error generating architecture summary"]}

\* _generate_architecture_summary
GenerateSummary ==
    /\ pc = "summary"
    /\ IF analysis_results = <<>>
       THEN /\ project_summary' = NoFilesText
            /\ UNCHANGED <<llm_calls, log>>
       ELSE /\ llm_calls' = llm_calls + 1
            /\ \E out \in SummaryOutcomes :
                 project_summary' = out.summary /\ log' = out.log
    /\ pc' = "recommendations"
    /\ UNCHANGED <<svars, gvars, xvars, files, disk_ok, project_root, file_groups, gi, response,
                   analysis_results, analysis, report, exit_status>>

\* line 364: one recommendation per non-blank line of the completion, each
\* stripped; lines is response.split("\n")
RecommendationLines(lines) ==
    LET StripLine(line) ==
            IF line = " " THEN ""
            ELSE IF line = " 2. do that " THEN "2. do that" ELSE line
    IN  SelectSeq([i \in 1..Len(lines) |-> StripLine(lines[i])], LAMBDA line : line # "")

\* lines 343-367: what _generate_recommendations returns and logs last; the
\* completions are empty, one line, or two lines with blanks and blank lines;
\* a call that raised, or a completion without content (None has no split),
\* is logged and gives the failure text
RecommendationOutcomes ==
    IF analysis_results = <<>>
    THEN {[recs |-> <<NoFilesText>>, log |-> log]}
    ELSE {[recs |-> RecommendationLines(lines), log |-> LogAfterCall(retried)] :
            lines \in {<<"">>, <<"recommendation text">>,
                       <<"1. do this", " ", " 2. do that ", "">>},
            retried \in BOOLEAN}
         \cup {[recs |-> <<"Failed to generate recommendations.">>,
                log |-> "Error generating recommendations"]}

\* _generate_recommendations, and the ProjectAnalysis analyze_files returns;
\* architecture_summary is declared str (models.py 97): with a summary of
\* None ProjectAnalysis(...) raises, the error leaves analyze_files and the
\* command's handler aborts
GenerateRecommendations ==
    /\ pc = "recommendations"
    /\ \E out \in RecommendationOutcomes :
         /\ log' = out.log
         /\ IF project_summary = None
            THEN /\ exit_status' = "aborted"
                 /\ pc' = "done"
                 /\ UNCHANGED analysis
            ELSE /\ analysis' = ProjectAnalysis(project_root, project_summary,
                                    _extract_design_patterns(analysis_results, project_root),
                                    _extract_quality_metrics(analysis_results, project_root),
                                    out.recs, analysis_results)
                 /\ pc' = "generate_report"
                 /\ UNCHANGED exit_status
    /\ llm_calls' = IF analysis_results = <<>> THEN llm_calls ELSE llm_calls + 1
    /\ UNCHANGED <<svars, gvars, xvars, files, disk_ok, project_root, file_groups, gi, response,
                   analysis_results, project_summary, report>>

\* generate_report and the command's end: the report is written; or a file
\* operation fails and the fallback writes the error report, which has no file
\* section, over the destination (its fsync may still fail), or stops with the
\* destination empty or holding part of the error report, or cannot open the
\* destination, which then is as it was before the call or, when the failure
\* came after os.replace, holds the report
GenerateReport ==
    /\ pc = "generate_report"
    /\ IF disk_ok
       THEN /\ report' = [kind |-> "report", file_analyses |-> analysis.file_analyses]
            /\ exit_status' = "success"
            /\ UNCHANGED log
       ELSE /\ exit_status' = "report_failed"
            /\ \/ /\ report' = [kind |-> "error_report", file_analyses |-> <<>>]
                  /\ log' \in {"Error generating report", "Failed to write error report"}
               \/ /\ report' \in {report,
                                  [kind |-> "empty", file_analyses |-> <<>>],
                                  [kind |-> "partial_error_report", file_analyses |-> <<>>],
                                  [kind |-> "report", file_analyses |-> analysis.file_analyses]}
                  /\ log' = "Failed to write error report"
    /\ pc' = "done"
    /\ UNCHANGED <<svars, gvars, xvars, files, disk_ok, project_root, file_groups, gi, response,
                   analysis_results, project_summary, llm_calls, analysis>>

Next ==
    \/ StartAnalysis
    \/ GatewayReplies
    \/ ProcessGroup
    \/ GenerateSummary
    \/ GenerateRecommendations
    \/ GenerateReport

RunIdle ==
    /\ files = <<>> /\ disk_ok = TRUE /\ project_root = NoRoot
    /\ file_groups = <<>> /\ gi = 0 /\ response = NoReply
    /\ analysis_results = <<>> /\ project_summary = "" /\ log = ""
    /\ llm_calls = 0 /\ analysis = NoAnalysis /\ report = NoReport
    /\ exit_status = "running" /\ pc = "idle"

GroupIdle ==
    /\ gfiles = <<>> /\ groot = NoRoot /\ greply = GatewayError
    /\ gout = Returned(<<>>, "") /\ gpc = "idle"

ScoreIdle ==
    content = <<>> /\ importance = FileImportance /\ spc = "idle" /\ file_type = "unknown"

ReportIdle ==
    /\ ranalysis = NoAnalysis /\ previous = NoFile /\ dest = NoFile /\ temp = NoFile
    /\ report_content = NoFile /\ err = "" /\ fallback = "none" /\ wpc = "idle"
    /\ exit_code = -1 /\ console = ""

WalkIdle ==
    tree = <<>> /\ max_files = 0 /\ java_files = <<>> /\ selected = <<>> /\ kpc = "idle"

GatewayIdle ==
    /\ now = 0 /\ last_reset = 0 /\ num_calls = 0 /\ resets = {} /\ calls_made = 0
    /\ entered = <<>> /\ attempt_number = 0 /\ outcomes = <<>> /\ attempt_times = <<>>
    /\ requests = <<>>
    /\ result = "none" /\ sleep_for = 0 /\ lpc = "idle"

XIdle == ReportIdle /\ WalkIdle /\ GatewayIdle

\* the analyze command
Init == RunInit /\ GroupIdle /\ ScoreIdle /\ XIdle

Spec == Init /\ [][Next]_vars

(***************************************************************************)
(* Scorer specification: one content, scored once.                         *)
(***************************************************************************)
ScoreInit ==
    /\ content \in Contents
    /\ importance = FileImportance
    /\ file_type = "unknown"
    /\ spc = "read"
    /\ GroupIdle /\ RunIdle /\ XIdle

\* _analyze_file, lines 63-70: the kind and the importance of the content read
ScoreFile ==
    /\ spc = "read"
    /\ file_type' = _determine_file_type(content)
    /\ importance' = _calculate_file_importance(content)
    /\ spc' = "scored"
    /\ UNCHANGED <<content, gvars, rvars, xvars>>

ScoreNext == ScoreFile

SpecScore == ScoreInit /\ [][ScoreNext]_vars

(***************************************************************************)
(* Round-trip specification: one group, one reply of the Gateway, taken    *)
(* through the path analyze_files picks for the group's size.              *)
(***************************************************************************)
GroupInit ==
    /\ gfiles \in GroupLists
    /\ groot \in Roots
    /\ greply \in Replies(gfiles, groot)
    /\ gout = Returned(<<>>, "")
    /\ gpc = "called"
    /\ ScoreIdle /\ RunIdle /\ XIdle

AnalyzeSingleFile ==
    /\ gpc = "called"
    /\ Len(gfiles) = 1
    /\ gout' = _analyze_single_file(gfiles[1], greply)
    /\ gpc' = "returned"
    /\ UNCHANGED <<gfiles, groot, greply, svars, rvars, xvars>>

AnalyzeFileGroup ==
    /\ gpc = "called"
    /\ Len(gfiles) # 1
    /\ gout' = _analyze_file_group(gfiles, groot, greply)
    /\ gpc' = "returned"
    /\ UNCHANGED <<gfiles, groot, greply, svars, rvars, xvars>>

GroupNext == AnalyzeSingleFile \/ AnalyzeFileGroup

SpecGroup == GroupInit /\ [][GroupNext]_vars

(***************************************************************************)
(* generate_report (report_generator.py) and the end of the analyze        *)
(* command (cli.py), step by step.  A file's content is what was being     *)
(* written to it and whether all of it arrived.                            *)
(***************************************************************************)
FileContent(kind, complete, path, findings, message) ==
    [kind |-> kind, complete |-> complete, project_path |-> path,
     files_analyzed |-> Len(findings), file_analyses |-> findings,
     message |-> message]

\* no file at the path
Absent == NoFile

\* the file right after open(path, 'w'): truncated to nothing
Truncated == FileContent("empty", FALSE, <<>>, <<>>, "")

\* '\n'.join(report): the report of the analysis
ReportText(a) == FileContent("report", TRUE, a.project_path, a.file_analyses, "")

\* mutant: the error report leaves out the error message
ErrorReport_NoMessage(a, e) ==
    [FileContent("error_report", TRUE, a.project_path, <<>>, "")
        EXCEPT !.files_analyzed = Len(a.file_analyses)]

\* '\n'.join(error_report): project path, number of files, str(e)
ErrorReport(a, e) ==
    [FileContent("error_report", TRUE, a.project_path, <<>>, e)
        EXCEPT !.files_analyzed = Len(a.file_analyses)]

\* what a failed write can leave of a text: nothing, or a part of it
PartsOf(text) == {Truncated, [text EXCEPT !.complete = FALSE]}

\* a report an earlier run left at the destination, a temp file an earlier
\* run left half written
OldReport == FileContent("report", TRUE, <<"old">>, <<>>, "")
StaleTemp == FileContent("report", FALSE, <<"old">>, <<>>, "")

FindingA == LLMResponse(FileA.path, Obj({"file_path", "confidence_score"}, <<>>, 9))
FindingB == LLMResponse(FileB.path, Obj({"file_path", "confidence_score"}, <<>>, 9))

\* the analyses analyze_files hands on
ReportAnalyses ==
    {EmptyAnalysis}
        \cup {ProjectAnalysis(root, "summary text",
                              _extract_design_patterns(rs, root),
                              _extract_quality_metrics(rs, root),
                              <<"recommendation text">>, rs) :
                root \in Roots, rs \in {<<FindingA>>, <<FindingA, FindingB>>}}

ReportInit ==
    /\ ranalysis \in ReportAnalyses
    /\ previous \in {Absent, OldReport}
    /\ dest = previous
    /\ temp \in {Absent, StaleTemp}
    /\ report_content = Absent
    /\ err = "" /\ fallback = "none"
    /\ wpc = "assemble"
    /\ exit_code = -1 /\ console = ""
    /\ ScoreIdle /\ GroupIdle /\ RunIdle /\ WalkIdle /\ GatewayIdle

\* lines 17-106: the text is assembled
Assemble ==
    /\ wpc = "assemble"
    /\ \E ok \in BOOLEAN :
         IF ok
         THEN /\ report_content' = ReportText(ranalysis)
              /\ wpc' = "open_temp"
              /\ UNCHANGED err
         ELSE /\ err' = "assemble"
              /\ wpc' = "fallback_open"
              /\ UNCHANGED report_content
    /\ UNCHANGED <<ranalysis, previous, dest, temp, fallback, exit_code, console>>
    /\ UNCHANGED <<svars, gvars, rvars, kvars, lvars>>

\* line 116: open(temp_path, 'w')
OpenTemp ==
    /\ wpc = "open_temp"
    /\ \E ok \in BOOLEAN :
         IF ok
         THEN /\ temp' = Truncated
              /\ wpc' = "write_temp"
              /\ UNCHANGED err
         ELSE /\ err' = "open"
              /\ wpc' = "finally"
              /\ UNCHANGED temp
    /\ UNCHANGED <<ranalysis, previous, dest, report_content, fallback, exit_code, console>>
    /\ UNCHANGED <<svars, gvars, rvars, kvars, lvars>>

\* lines 117-119: write, flush, fsync, and the file closed; a failure leaves
\* nothing or a part of the text in the file, or all of it when fsync fails
WriteTemp ==
    /\ wpc = "write_temp"
    /\ \/ /\ temp' = report_content
          /\ wpc' = "replace"
          /\ UNCHANGED err
       \/ /\ temp' \in PartsOf(report_content) \cup {report_content}
          /\ err' = "write"
          /\ wpc' = "finally"
    /\ UNCHANGED <<ranalysis, previous, dest, report_content, fallback, exit_code, console>>
    /\ UNCHANGED <<svars, gvars, rvars, kvars, lvars>>

\* line 122: os.replace(temp_path, output_path)
Replace ==
    /\ wpc = "replace"
    /\ \/ /\ dest' = temp
          /\ temp' = Absent
          /\ wpc' = "verify"
          /\ UNCHANGED err
       \/ /\ err' = "replace"
          /\ wpc' = "finally"
          /\ UNCHANGED <<dest, temp>>
    /\ UNCHANGED <<ranalysis, previous, report_content, fallback, exit_code, console>>
    /\ UNCHANGED <<svars, gvars, rvars, kvars, lvars>>

\* lines 125-131: the destination is looked up and read back
Verify ==
    /\ wpc = "verify"
    /\ \/ UNCHANGED err
       \/ err' = "verify"
    /\ wpc' = "finally"
    /\ UNCHANGED <<ranalysis, previous, dest, temp, report_content, fallback, exit_code,
                   console>>
    /\ UNCHANGED <<svars, gvars, rvars, kvars, lvars>>

\* lines 132-135: the temp file is removed if it is there
Finally ==
    /\ wpc = "finally"
    /\ IF temp = Absent
       THEN UNCHANGED <<temp, err>>
       ELSE \/ temp' = Absent /\ UNCHANGED err
            \/ err' = "remove" /\ UNCHANGED temp
    /\ wpc' = IF err' = "" THEN "returned" ELSE "fallback_open"
    /\ UNCHANGED <<ranalysis, previous, dest, report_content, fallback, exit_code, console>>
    /\ UNCHANGED <<svars, gvars, rvars, kvars, lvars>>

\* lines 137-150: the handler opens the destination itself for writing
FallbackOpen ==
    /\ wpc = "fallback_open"
    /\ \/ /\ dest' = Truncated
          /\ wpc' = "fallback_write"
          /\ UNCHANGED fallback
       \/ /\ fallback' = "open_failed"
          /\ wpc' = "raised"
          /\ UNCHANGED dest
    /\ UNCHANGED <<ranalysis, previous, temp, report_content, err, exit_code, console>>
    /\ UNCHANGED <<svars, gvars, rvars, kvars, lvars>>

\* lines 151-157: the error report is written, in part or in whole when a
\* step fails, and the exception raised again
FallbackWrite ==
    /\ wpc = "fallback_write"
    /\ \/ /\ dest' = ErrorReport(ranalysis, err)
          /\ fallback' = "written"
       \/ /\ dest' \in PartsOf(ErrorReport(ranalysis, err)) \cup {ErrorReport(ranalysis, err)}
          /\ fallback' = "write_failed"
    /\ wpc' = "raised"
    /\ UNCHANGED <<ranalysis, previous, temp, report_content, err, exit_code, console>>
    /\ UNCHANGED <<svars, gvars, rvars, kvars, lvars>>

\* cli.py lines 87-96: the command's end after generate_report
AnalyzeEnds ==
    /\ wpc \in {"returned", "raised"}
    /\ console' = IF wpc = "returned"
                  THEN "Analysis complete! Report saved"
                  ELSE "A partial report has been generated with available information."
    /\ exit_code' = 0
    /\ wpc' = "exited"
    /\ UNCHANGED <<ranalysis, previous, dest, temp, report_content, err, fallback>>
    /\ UNCHANGED <<svars, gvars, rvars, kvars, lvars>>

\* the process is stopped between two steps of generate_report, or inside the
\* write of the temporary file or of the error report, with none, part or all
\* of the text on disk
ProcessStops ==
    /\ wpc \in {"assemble", "open_temp", "write_temp", "replace", "verify", "finally",
                "fallback_open", "fallback_write", "returned", "raised"}
    /\ temp' \in IF wpc = "write_temp"
                 THEN {temp} \cup PartsOf(report_content) \cup {report_content}
                 ELSE {temp}
    /\ dest' \in IF wpc = "fallback_write"
                 THEN {dest} \cup PartsOf(ErrorReport(ranalysis, err))
                             \cup {ErrorReport(ranalysis, err)}
                 ELSE {dest}
    /\ wpc' = "stopped"
    /\ UNCHANGED <<ranalysis, previous, report_content, err, fallback, exit_code, console>>
    /\ UNCHANGED <<svars, gvars, rvars, kvars, lvars>>

ReportNext ==
    \/ Assemble
    \/ OpenTemp
    \/ WriteTemp
    \/ Replace
    \/ Verify
    \/ Finally
    \/ FallbackOpen
    \/ FallbackWrite
    \/ AnalyzeEnds
    \/ ProcessStops

SpecReport == ReportInit /\ [][ReportNext]_vars

(***************************************************************************)
(* The walker (FileAnalyzer.analyze_project) and the selection of the      *)
(* files for the LLM stage (cli.py).  A file name is the sequence of its   *)
(* pieces: a stem and a suffix.                                            *)
(***************************************************************************)
MAX_FILE_SIZE == 1000000
SUPPORTED_EXTENSIONS == {".java"}
EXCLUDE_PATTERNS ==
    {"target/", "build/", "out/", ".git/", "node_modules/", "*.test.java", "*.spec.java"}

Stem(i) == <<"F1", "F2", "F3", "F4", "F5">>[i]
Suffixes == {".java", ".txt", "*.test.java", ".test.java"}

\* piece.endswith(ext)
PieceEndsWith(piece, ext) ==
    ext = ".java" /\ piece \in {".java", "*.test.java", ".test.java"}

\* pattern in piece
PieceContains(piece, pattern) ==
    pattern = "*.test.java" /\ piece = "*.test.java"

\* filename.endswith(ext)
name_endswith(name, ext) == PieceEndsWith(name[Len(name)], ext)

\* pattern in filename
name_contains(name, pattern) == \E i \in 1..Len(name) : PieceContains(name[i], pattern)

_should_analyze_file(filename) ==
    IF ~\E ext \in SUPPORTED_EXTENSIONS : name_endswith(filename, ext) THEN FALSE
    ELSE IF \E pattern \in EXCLUDE_PATTERNS : name_contains(filename, pattern) THEN FALSE
    ELSE TRUE

\* mutant: a file of exactly MAX_FILE_SIZE bytes is over the limit
_is_within_size_limit_Strict(e) ==
    IF e.stat_ok THEN e.st_size < MAX_FILE_SIZE ELSE FALSE

\* stat() raising OSError counts as over the limit
_is_within_size_limit(e) ==
    IF e.stat_ok THEN e.st_size <= MAX_FILE_SIZE ELSE FALSE

\* the text after 'package ' on the first line that starts with it, without
\* the trailing ';' ("" when there is no such line); the contents of the
\* model hold a package statement only as a line of its own
_extract_package(c) ==
    LET starts == {i \in 1..Len(c) :
                      c[i][1] = "package p;" /\ (i = 1 \/ c[i - 1][1] = "NL")}
    IN  IF starts = {} THEN "" ELSE "p"

\* Path(root) / file
PathOf(e) == Append(e.dir, e.name)

\* _analyze_file: the JavaFile in a list, the empty list for None
_analyze_file(e) ==
    IF e.readable
    THEN <<[path |-> PathOf(e), content |-> e.content,
            package |-> _extract_package(e.content),
            file_type |-> _determine_file_type(e.content),
            importance |-> _calculate_file_importance(e.content)]>>
    ELSE <<>>

RECURSIVE analyze_project(_)
analyze_project(t) ==
    IF t = <<>> THEN <<>>
    ELSE LET e == Head(t)
         IN  (IF ~_should_analyze_file(e.name) THEN <<>>
              ELSE IF ~_is_within_size_limit(e) THEN <<>>
              ELSE _analyze_file(e)) \o analyze_project(Tail(t))

\* f.importance.total_score < g.importance.total_score, as doubles. The
\* doubles of the scorer are within 2^-40 of the totals before rounding, which
\* are multiples of 1/Scale: they are ordered as those totals are when these
\* differ, and the same content gets the same double.
ScoreLess(f, g) ==
    LET FloatLess(x, y) ==
            LET Below(a, b) == \* a < b for two positive doubles
                    a[3] < b[3] \/ (a[3] = b[3] /\ LessLimbs(a[2], b[2]))
            IN  IF x[1] # y[1] THEN x[1] < y[1]
                ELSE IF x[1] = 1 THEN Below(x, y)
                ELSE IF x[1] = -1 THEN Below(y, x)
                ELSE FALSE
    IN  IF f.importance.total_score # g.importance.total_score
        THEN f.importance.total_score < g.importance.total_score
        ELSE /\ f.content # g.content
             /\ FloatLess(FloatTotalScore(f.content), FloatTotalScore(g.content))

\* x put into a list sorted by descending total_score, after its equals
RECURSIVE InsertByScore(_, _)
InsertByScore(x, s) ==
    IF s = <<>> THEN <<x>>
    ELSE IF ScoreLess(Head(s), x)
         THEN <<x>> \o s
         ELSE <<Head(s)>> \o InsertByScore(x, Tail(s))

\* x put into the list before its equals
RECURSIVE InsertBeforeEquals(_, _)
InsertBeforeEquals(x, s) ==
    IF s = <<>> THEN <<x>>
    ELSE IF ~ScoreLess(x, Head(s))
         THEN <<x>> \o s
         ELSE <<Head(s)>> \o InsertBeforeEquals(x, Tail(s))

\* mutant: descending order got by reversing an ascending sort, which turns
\* the order of equal files around
RECURSIVE sort_by_total_score_Reversed(_)
sort_by_total_score_Reversed(fs) ==
    IF fs = <<>> THEN <<>>
    ELSE InsertBeforeEquals(fs[Len(fs)],
                            sort_by_total_score_Reversed(SubSeq(fs, 1, Len(fs) - 1)))

\* files.sort(key=lambda x: x.importance.total_score, reverse=True): stable
RECURSIVE sort_by_total_score(_)
sort_by_total_score(fs) ==
    IF fs = <<>> THEN <<>>
    ELSE InsertByScore(fs[Len(fs)], sort_by_total_score(SubSeq(fs, 1, Len(fs) - 1)))

\* s[:n]
SliceTo(s, n) ==
    SubSeq(s, 1, IF n >= 0 THEN Min(n, Len(s))
                 ELSE IF Len(s) + n > 0 THEN Len(s) + n ELSE 0)

\* cli.py lines 72-77
select_files(fs, m) ==
    IF Len(fs) > m THEN SliceTo(sort_by_total_score(fs), m) ELSE fs

MainClass == <<<<"public static void main(", 1>>, <<"class ", 1>>>>

\* file contents of the walk: nothing; a package line and an interface; a main
\* class; one method, six closing braces and 100 lines, whose total is 0 before
\* rounding as that of the empty file, and 1.85e-17 as a double
WalkContents ==
    {<<>>, <<<<"package p;", 1>>, <<"NL", 1>>, <<"interface ", 1>>>>, MainClass,
     <<<<"public ", 1>>, <<"}", 6>>, <<"NL", 100>>>>}

DirEntry(i, suffix, dir, size, stat_ok, readable, c) ==
    [name |-> <<Stem(i), suffix>>, dir |-> dir, st_size |-> size, stat_ok |-> stat_ok,
     readable |-> readable, content |-> c]

\* the i-th file of the walk: a Java file of any content at the size limit,
\* or a main class with one of: another suffix, the target directory, a size
\* over the limit, a failing stat(), a failing read
EntriesAt(i) ==
    {DirEntry(i, ".java", <<"proj">>, MAX_FILE_SIZE, TRUE, TRUE, c) : c \in WalkContents}
        \cup {DirEntry(i, sfx, <<"proj">>, 1, TRUE, TRUE, MainClass) :
                sfx \in Suffixes \ {".java"}}
        \cup {DirEntry(i, ".java", <<"proj", "target">>, 1, TRUE, TRUE, MainClass),
              DirEntry(i, ".java", <<"proj">>, MAX_FILE_SIZE + 1, TRUE, TRUE, MainClass),
              DirEntry(i, ".java", <<"proj">>, 1, FALSE, TRUE, MainClass),
              DirEntry(i, ".java", <<"proj">>, 1, TRUE, FALSE, MainClass)}

RECURSIVE Trees(_)
Trees(n) ==
    IF n = 0 THEN {<<>>}
    ELSE {Append(t, e) : t \in Trees(n - 1), e \in EntriesAt(n)}

WalkInit ==
    /\ tree \in UNION {Trees(n) : n \in 0..MaxEntries}
    /\ max_files \in 0..MaxEntries
    /\ java_files = <<>> /\ selected = <<>>
    /\ kpc = "walk"
    /\ ScoreIdle /\ GroupIdle /\ RunIdle /\ ReportIdle /\ GatewayIdle

\* cli.py line 70: the walker
AnalyzeProject ==
    /\ kpc = "walk"
    /\ java_files' = analyze_project(tree)
    /\ kpc' = "select"
    /\ UNCHANGED <<tree, max_files, selected>>
    /\ UNCHANGED <<svars, gvars, rvars, wvars, lvars>>

\* cli.py lines 72-82: the files handed to analyze_files
SelectFiles ==
    /\ kpc = "select"
    /\ selected' = select_files(java_files, max_files)
    /\ kpc' = "analyze_files"
    /\ UNCHANGED <<tree, max_files, java_files>>
    /\ UNCHANGED <<svars, gvars, rvars, wvars, lvars>>

WalkNext == AnalyzeProject \/ SelectFiles

SpecWalk == WalkInit /\ [][WalkNext]_vars

(***************************************************************************)
(* The Gateway: self._call_llm as __init__ leaves it, the retrying         *)
(* _call_llm (tenacity) inside the rate limiter (ratelimit's limits inside *)
(* sleep_and_retry).  Time is counted in seconds; a provider request takes *)
(* no time of its own.                                                     *)
(***************************************************************************)
Max(a, b) == IF a >= b THEN a ELSE b

\* mutant: the retry stops after the fourth attempt
stop_after_attempt_OneMore(n) == n >= 4

\* stop=stop_after_attempt(3)
stop_after_attempt(n) == n >= 3

\* wait=wait_exponential(multiplier=1, min=4, max=10) after attempt n
wait_exponential(n) == Max(4, Min(1 * 2 ^ (n - 1), 10))

\* mutant: the limiter lets one call more through
limits_OneMore(t, lr, n) ==
    LET period_remaining == RATE_LIMIT_PERIOD - (t - lr)
        reset == period_remaining <= 0
        n1    == (IF reset THEN 0 ELSE n) + 1
    IN  [num_calls |-> n1, last_reset |-> IF reset THEN t ELSE lr, reset |-> reset,
         raised |-> n1 > RATE_LIMIT_CALLS + 1, period_remaining |-> period_remaining]

\* limits(calls=RATE_LIMIT_CALLS, period=RATE_LIMIT_PERIOD): a call at time t
\* with the period begun at lr and n calls counted: the period is begun anew
\* when it has run out, the call is counted, and RateLimitException raised
\* when the count exceeds the limit
limits(t, lr, n) ==
    LET period_remaining == RATE_LIMIT_PERIOD - (t - lr)
        reset == period_remaining <= 0
        n1    == (IF reset THEN 0 ELSE n) + 1
    IN  [num_calls |-> n1, last_reset |-> IF reset THEN t ELSE lr, reset |-> reset,
         raised |-> n1 > RATE_LIMIT_CALLS, period_remaining |-> period_remaining]

\* LLMAnalyzer(): the limiter is set up, its first period begins
GatewayInit ==
    /\ now = 0 /\ last_reset = 0 /\ num_calls = 0 /\ resets = {0}
    /\ calls_made = 0 /\ entered = <<>>
    /\ attempt_number = 0 /\ outcomes = <<>> /\ attempt_times = <<>>
    /\ requests = <<>>
    /\ result = "none" /\ sleep_for = 0
    /\ lpc = "ready"
    /\ ScoreIdle /\ GroupIdle /\ RunIdle /\ ReportIdle /\ WalkIdle

\* the limiter's wrapper run at time t, the caller having slept or not
ThroughLimiter(t, slept) ==
    LET l == limits(t, last_reset, num_calls)
    IN  /\ num_calls' = l.num_calls
        /\ last_reset' = l.last_reset
        /\ resets' = IF l.reset THEN resets \cup {t} ELSE resets
        /\ IF l.raised
           THEN /\ sleep_for' = l.period_remaining
                /\ lpc' = "rate_limited"
                /\ UNCHANGED <<entered, attempt_number, outcomes, attempt_times, result>>
           ELSE /\ entered' = Append(entered, [at |-> t, slept |-> slept])
                /\ attempt_number' = 1
                /\ outcomes' = <<>> /\ attempt_times' = <<>>
                /\ result' = "none"
                /\ sleep_for' = 0
                /\ lpc' = "attempt"

\* a caller calls self._call_llm(prompt)
CallLLM ==
    /\ lpc = "ready"
    /\ calls_made < MaxCalls
    /\ calls_made' = calls_made + 1
    /\ ThroughLimiter(now, FALSE)
    /\ UNCHANGED <<now, requests>>
    /\ UNCHANGED <<svars, gvars, rvars, wvars, kvars>>

\* sleep_and_retry: time.sleep(exception.period_remaining), then the call again
SleepAndRetry ==
    /\ lpc = "rate_limited"
    /\ now' = now + sleep_for
    /\ ThroughLimiter(now', TRUE)
    /\ UNCHANGED <<calls_made, requests>>
    /\ UNCHANGED <<svars, gvars, rvars, wvars, kvars>>

\* _call_llm, lines 61-75: one request to the provider, and what the retry
\* makes of its outcome
ProviderRequest ==
    /\ lpc = "attempt"
    /\ attempt_times' = Append(attempt_times, now)
    /\ requests' = Append(requests, now)
    /\ \E outcome \in {"ok", "fail"} :
         /\ outcomes' = Append(outcomes, outcome)
         /\ IF outcome = "ok"
            THEN result' = "text" /\ lpc' = "ready"
            ELSE IF stop_after_attempt(attempt_number)
                 THEN result' = "RetryError" /\ lpc' = "ready"
                 ELSE result' = "none" /\ lpc' = "backoff"
    /\ UNCHANGED <<now, last_reset, num_calls, resets, calls_made, entered, attempt_number,
                   sleep_for>>
    /\ UNCHANGED <<svars, gvars, rvars, wvars, kvars>>

\* the retry sleeps and goes on to the next attempt
Backoff ==
    /\ lpc = "backoff"
    /\ now' = now + wait_exponential(attempt_number)
    /\ attempt_number' = attempt_number + 1
    /\ lpc' = "attempt"
    /\ UNCHANGED <<last_reset, num_calls, resets, calls_made, entered, outcomes,
                   attempt_times, requests, result, sleep_for>>
    /\ UNCHANGED <<svars, gvars, rvars, wvars, kvars>>

\* time passes between two calls
Tick ==
    /\ lpc = "ready"
    /\ now < MaxTime
    /\ now' = now + 1
    /\ UNCHANGED <<last_reset, num_calls, resets, calls_made, entered, attempt_number,
                   outcomes, attempt_times, requests, result, sleep_for, lpc>>
    /\ UNCHANGED <<svars, gvars, rvars, wvars, kvars>>

GatewayNext ==
    \/ CallLLM
    \/ SleepAndRetry
    \/ ProviderRequest
    \/ Backoff
    \/ Tick

SpecGateway == GatewayInit /\ [][GatewayNext]_vars

(***************************************************************************)
(* Properties of the scorer (SpecScore).                                   *)
(***************************************************************************)
InUnit(x) == 0 <= x /\ x <= Scale

\* C1: for every content the complexity, dependency and business-logic scores
\* lie in [0,1] and the total score is >= 0, also with more closing than
\* opening braces.
C1_ScoresInRange ==
    spc = "scored" =>
        /\ InUnit(importance.complexity_score)
        /\ InUnit(importance.dependency_score)
        /\ InUnit(importance.business_logic_score)
        /\ importance.total_score >= 0

\* the content holds the keyword followed by a blank, in any letter case
HasKindToken(spellings) == \E i \in 1..Len(content) : content[i][1] \in spellings

\* C18: the kind is a function of the content with priority interface >
\* enum > class > unknown: interface and class tokens together give
\* interface, enum and class tokens without an interface token give enum,
\* none of the three gives unknown.
C18_KindPriority ==
    spc = "scored" =>
        LET has_interface == HasKindToken({"interface ", "Interface "})
            has_enum      == HasKindToken({"enum "})
            has_class     == HasKindToken({"class "})
        IN  /\ has_interface => file_type = "interface"
            /\ (has_enum /\ ~has_interface) => file_type = "enum"
            /\ (has_class /\ ~has_enum /\ ~has_interface) => file_type = "class"
            /\ (~has_class /\ ~has_enum /\ ~has_interface) => file_type = "unknown"

\* C18 witness: a capitalised interface token after a class token
C18_Witness ==
    /\ spc = "scored" /\ Len(content) = 2
    /\ content[1][1] = "class " /\ content[2][1] = "Interface "
    /\ file_type = "interface"

\* the business keywords spelled in the tokens of the content
KeywordsPresent ==
    {k \in business_indicators :
        \E i \in 1..Len(content) :
            \/ content[i][1] = k
            \/ k = "Service" /\ content[i][1] = "@Service"}

\* C19: content holding at least one of the 13 business keywords has a
\* business_logic_score above 0, equal to the number of distinct keywords
\* present divided by 13, and a total_score above 0.
C19_BusinessKeywordScoresPositive ==
    (spc = "scored" /\ KeywordsPresent # {}) =>
        /\ importance.business_logic_score > 0
        /\ 13 * importance.business_logic_score = Cardinality(KeywordsPresent) * Scale
        /\ importance.total_score > 0

\* C20: total_score is 5*is_main_class + 4*is_entry_point + 3*is_config_file
\* + 2*complexity_score + 2*dependency_score + 3*business_logic_score, the
\* flags counting 0 or 1, and computing it again on unchanged sub-scores
\* leaves the FileImportance as it is.
C20_TotalScoreFormula ==
    spc = "scored" =>
        /\ importance.total_score =
              Scale * (5 * B2I(importance.is_main_class)
                       + 4 * B2I(importance.is_entry_point)
                       + 3 * B2I(importance.is_config_file))
              + 2 * importance.complexity_score
              + 2 * importance.dependency_score
              + 3 * importance.business_logic_score
        /\ calculate_total_score(importance) = importance

\* C20 witness: a main class with a configuration annotation and a keyword:
\* every flag set and every sub-score above 0
C20_Witness ==
    /\ spc = "scored"
    /\ importance.is_main_class /\ importance.is_entry_point
    /\ importance.is_config_file
    /\ importance.complexity_score > 0 /\ importance.dependency_score > 0
    /\ importance.total_score > 12 * Scale

(***************************************************************************)
(* Properties of one round trip (SpecGroup).                               *)
(***************************************************************************)
BatchReturned == gpc = "returned" /\ Len(gfiles) # 1
SingleReturned == gpc = "returned" /\ Len(gfiles) = 1

\* the reply as the batch path parses it
BatchParsed == JsonLoads(CleanGroupResponse(greply.text))
BatchItems == BatchParsed.items
BatchParsedOk == ~greply.raised /\ strip(greply.text) # <<>> /\ BatchParsed.ok

\* the reply as the single-file path parses it
SingleParsed == JsonLoads(_extract_json_from_response(greply.text))
SingleParsedOk == ~greply.raised /\ SingleParsed.ok

ShownPath(i) == sanitize_path(gfiles[i].path, groot)
IsShown(fp) == \E i \in 1..Len(gfiles) : ShownPath(i) = fp
FirstShown(fp) == CHOOSE i \in 1..Len(gfiles) :
                    ShownPath(i) = fp /\ \A j \in 1..(i - 1) : ShownPath(j) # fp

HasField(el, k) == k \in el.has
InRange(el) == HasField(el, "confidence_score") /\ ConfidenceValid(el.confidence_score)
OutOfRange(el) == HasField(el, "confidence_score") /\ ~ConfidenceValid(el.confidence_score)
Matches(el) == HasField(el, "file_path") /\ IsShown(el.file_path)

\* element by element: the Findings of the elements that match a file and
\* are not out of range, in response order
RECURSIVE KeptFindings(_)
KeptFindings(items) ==
    IF items = <<>> THEN <<>>
    ELSE LET el == Head(items)
         IN  (IF Matches(el) /\ ~OutOfRange(el)
              THEN <<[file_path |-> gfiles[FirstShown(el.file_path)].path,
                      confidence_score |-> GetConfidence(el)]>>
              ELSE <<>>) \o KeptFindings(Tail(items))

\* C2: in a parsed batch response an element with confidence outside [0,1]
\* is dropped on its own; every other matching element with a valid
\* confidence still becomes a Finding.
C2_OutOfRangeDroppedAlone ==
    (BatchReturned /\ BatchParsedOk
        /\ \E i \in 1..Len(BatchItems) : OutOfRange(BatchItems[i]))
    => /\ ~gout.raised
       /\ \A i \in 1..Len(BatchItems) :
            (Matches(BatchItems[i]) /\ InRange(BatchItems[i]))
            => \E k \in 1..Len(gout.results) :
                 /\ gout.results[k].file_path = gfiles[FirstShown(BatchItems[i].file_path)].path
                 /\ gout.results[k].confidence_score = BatchItems[i].confidence_score

\* distinct file_path strings, each the shown path of a file of the group
DistinctShownPaths(items) ==
    /\ items # <<>>
    /\ \A i \in 1..Len(items) : Matches(items[i])
    /\ \A i, j \in 1..Len(items) : i # j => items[i].file_path # items[j].file_path

OneFindingPerElement(items) ==
    /\ ~gout.raised
    /\ Len(gout.results) = Len(items)
    /\ \A i \in 1..Len(items) :
         /\ gout.results[i].file_path = gfiles[FirstShown(items[i].file_path)].path
         /\ gout.results[i].confidence_score = GetConfidence(items[i])

\* C3 as stated: a batch response with distinct file_path strings, each the
\* normalized relative path of a file of the group, yields one Finding per
\* element, in response order, each under the matched file's full path.
C3_OneFindingPerElement_Original ==
    (BatchReturned /\ BatchParsedOk /\ DistinctShownPaths(BatchItems))
    => OneFindingPerElement(BatchItems)

\* C3 as amended: the same, for responses in which every element carries a
\* confidence_score within [0,1].
C3_OneFindingPerValidElement ==
    (BatchReturned /\ BatchParsedOk /\ DistinctShownPaths(BatchItems)
        /\ \A i \in 1..Len(BatchItems) : InRange(BatchItems[i]))
    => OneFindingPerElement(BatchItems)

\* C3 witness: two elements in the reverse of the file order, under a known
\* root, so that the Finding's path differs from the string of the response
C3_Witness ==
    /\ BatchReturned /\ BatchParsedOk /\ DistinctShownPaths(BatchItems)
    /\ \A i \in 1..Len(BatchItems) : InRange(BatchItems[i])
    /\ Len(BatchItems) = 2
    /\ BatchItems[1].file_path = ShownPath(2)
    /\ BatchItems[2].file_path = ShownPath(1)
    /\ Len(gout.results) = 2
    /\ gout.results[1].file_path = gfiles[2].path
    /\ gout.results[1].file_path # BatchItems[1].file_path

\* C4: every Finding names a file of the submitted group; an element whose
\* file_path matches no file yields no Finding and no error, and the
\* matching elements of the same response still yield their Findings.
C4_UnmatchedDroppedOthersKept ==
    (BatchReturned /\ BatchParsedOk
        /\ \E i \in 1..Len(BatchItems) : ~Matches(BatchItems[i]))
    => /\ ~gout.raised
       /\ \A k \in 1..Len(gout.results) :
            \E i \in 1..Len(gfiles) : gout.results[k].file_path = gfiles[i].path
       /\ gout.results = KeptFindings(BatchItems)

\* the Findings a file of the group received
FindingsOf(i) == {k \in 1..Len(gout.results) : gout.results[k].file_path = gfiles[i].path}

\* C22: for any parsed batch response each file of the submitted group
\* receives at most one Finding, so the group never gets more Findings than
\* it has files, also when the response repeats a file_path.
C22_AtMostOneFindingPerFile ==
    (BatchReturned /\ BatchParsedOk)
    => /\ \A i \in 1..Len(gfiles) : Cardinality(FindingsOf(i)) <= 1
       /\ Len(gout.results) <= Len(gfiles)

\* the response holds exactly one element per file of the group, each tagged
\* with the path string its file was shown under, each a valid Finding
OneElementPerFile(items) ==
    /\ Len(items) = Len(gfiles)
    /\ \A i \in 1..Len(items) : HasField(items[i], "file_path") /\ InRange(items[i])
    /\ \E pi \in [1..Len(items) -> 1..Len(gfiles)] :
         /\ IsInjective(pi)
         /\ \A i \in 1..Len(items) : items[i].file_path = ShownPath(pi[i])

\* C24: a batch response with exactly one element per file of the group, each
\* tagged with the path string under which its file was shown in the prompt,
\* gives every file of the group exactly one Finding, with the contents of
\* its own element, also when files are shown by bare filename.
C24_OwnElementPerFile ==
    (BatchReturned /\ BatchParsedOk /\ OneElementPerFile(BatchItems))
    => /\ ~gout.raised
       /\ Len(gout.results) = Len(gfiles)
       /\ \A i \in 1..Len(gfiles) :
            /\ Cardinality(FindingsOf(i)) = 1
            /\ \A k \in FindingsOf(i) :
                 \E e \in 1..Len(BatchItems) :
                    /\ BatchItems[e].file_path = ShownPath(i)
                    /\ gout.results[k].confidence_score = BatchItems[e].confidence_score

\* a reply that is a code fence around a text R
IsFenced(text) ==
    /\ Len(text) >= 4
    /\ text[1].t = "FENCE" /\ text[Len(text)].t = "FENCE"
    /\ text[Len(text) - 1].t = "NL"
    /\ IndexOf(text, "NL") \in {2, 3}
    /\ IndexOf(text, "NL") < Len(text) - 1
FenceBody(text) == SubSeq(text, IndexOf(text, "NL") + 1, Len(text) - 2)

\* C5: a response R that parses as JSON gives the same Findings when it is
\* wrapped in a code fence (opening marker line with an optional language
\* tag, closing marker line), on the single-file path and on the batch path.
C5_FenceTransparent ==
    (gpc = "returned" /\ ~greply.raised /\ IsFenced(greply.text)
        /\ JsonLoads(FenceBody(greply.text)).ok)
    => gout = (IF Len(gfiles) = 1
               THEN _analyze_single_file(gfiles[1], Reply(FenceBody(greply.text)))
               ELSE _analyze_file_group(gfiles, groot, Reply(FenceBody(greply.text))))

\* C7: an element without a confidence_score field yields no Finding; no
\* default confidence is put in its place.
C7_MissingConfidenceIsError ==
    /\ (SingleReturned /\ SingleParsedOk /\ ~SingleParsed.is_array
            /\ ~HasField(SingleParsed.items[1], "confidence_score"))
       => gout.results = <<>>
    /\ (BatchReturned /\ BatchParsedOk)
       => Len(gout.results) <=
            Cardinality({i \in 1..Len(BatchItems) :
                            HasField(BatchItems[i], "confidence_score")})

(***************************************************************************)
(* Properties of the analyze command (Spec).                               *)
(***************************************************************************)
\* C6: analyze_files on an empty list returns, without failing and without
\* an LLM call, an analysis with no findings, no design patterns, no quality
\* metrics, and a summary stating that no files were analyzed.
C6_EmptyInputAnalysis ==
    (files = <<>> /\ pc \in {"generate_report", "done"})
    => /\ exit_status # "aborted"
       /\ llm_calls = 0
       /\ analysis.file_analyses = <<>>
       /\ analysis.design_patterns = <<>>
       /\ analysis.code_quality_metrics = <<>>
       /\ analysis.architecture_summary = NoFilesText

\* the reply in hand is for a group of two or more and is no JSON text
UnparseableGroupReply ==
    /\ pc = "reply"
    /\ Len(file_groups[gi]) # 1
    /\ ~response.raised
    /\ \/ strip(response.text) = <<>>
       \/ ~JsonLoads(CleanGroupResponse(response.text)).ok

\* C8: a group reply that is not parseable as JSON yields no Finding for the
\* group and no error; analyze_files keeps the Findings collected so far and
\* goes on with the next group (or, after the last, with the summary).
C8_UnparseableGroupSkipped ==
    [][UnparseableGroupReply =>
        /\ analysis_results' = analysis_results
        /\ exit_status' = "running"
        /\ gi' = gi + 1
        /\ pc' = (IF gi < Len(file_groups) THEN "call_llm" ELSE "summary")]_vars

\* C8 witness: a two-file group's reply failed to parse, Findings of an
\* earlier group are still held and a further group is about to be called
C8_Witness ==
    /\ pc = "call_llm" /\ gi >= 2
    /\ Len(file_groups[gi - 1]) = 2
    /\ log = "Failed to parse LLM response as JSON"
    /\ analysis_results # <<>>
    /\ exit_status = "running"

GatewayFailed == pc = "reply" /\ response.raised

\* C9 as stated: a Gateway failure on the call for a single file or for a
\* file group leaves analyze_files as a hard failure.
C9_GatewayFailurePropagates_Original ==
    [][GatewayFailed => (exit_status' = "aborted" /\ pc' = "done")]_vars

\* C9 as amended: on the call for a single file the failure leaves
\* analyze_files as a hard failure; on the call for a group of two or more
\* it is caught, the group yields no Finding and analyze_files continues.
C9_GatewayFailureSingleFileOnly ==
    [][GatewayFailed =>
        IF Len(file_groups[gi]) = 1
        THEN /\ exit_status' = "aborted" /\ pc' = "done"
             /\ report' = NoReport /\ analysis' = NoAnalysis
        ELSE /\ exit_status' = "running"
             /\ analysis_results' = analysis_results
             /\ gi' = gi + 1
             /\ pc' = (IF gi < Len(file_groups) THEN "call_llm" ELSE "summary")]_vars

\* C9 witness: the command aborted on a single-file call after an earlier
\* group had produced Findings; no analysis was returned
C9_Witness ==
    /\ pc = "done" /\ exit_status = "aborted"
    /\ log = "LLM API call failed"
    /\ gi <= Len(file_groups) /\ Len(file_groups[gi]) = 1
    /\ analysis_results # <<>>
    /\ analysis = NoAnalysis

\* C10: whenever writing to disk succeeds, the command ends with a report at
\* the destination holding the Findings obtained, whichever LLM calls failed.
C10_ReportAlwaysWritten ==
    (pc = "done" /\ disk_ok)
    => /\ report.kind = "report"
       /\ report.file_analyses = analysis_results

\* the groups holding a file, as <<group, position>>
PlacesOf(f) ==
    {<<g, k>> \in (1..Len(file_groups)) \X (1..Len(files)) :
        k <= Len(file_groups[g]) /\ file_groups[g][k] = f}

GroupOf(f) == (CHOOSE gk \in PlacesOf(f) : TRUE)[1]

\* the groups are a partition of the input by (kind, package)
PartitionedByKindAndPackage ==
    /\ \A g \in 1..Len(file_groups) :
         /\ file_groups[g] # <<>>
         /\ \A k \in 1..Len(file_groups[g]) :
              \E i \in 1..Len(files) : files[i] = file_groups[g][k]
    /\ \A i \in 1..Len(files) : Cardinality(PlacesOf(files[i])) = 1
    /\ \A i, j \in 1..Len(files) :
         (GroupOf(files[i]) = GroupOf(files[j]))
         <=> (/\ files[i].file_type = files[j].file_type
              /\ files[i].package = files[j].package)

\* a completion that is one bare JSON object, or a JSON array
IsObjectReply(r) == ~r.raised /\ Len(r.text) = 1 /\ r.text[1].t = "obj"
IsArrayReply(r) == ~r.raised /\ r.text # <<>> /\ r.text[1].t = "["
ArrayItems(r) == SelectSeq(r.text, LAMBDA tok : tok.t = "obj")

\* the group in hand went through the single-file path: an object becomes
\* the Finding of the group's file whatever path it names, an array none
SentAsSingleFile ==
    /\ (IsObjectReply(response) /\ ConfidenceValid(GetConfidence(response.text[1])))
       => analysis_results' =
            Append(analysis_results,
                   [file_path |-> file_groups[gi][1].path,
                    confidence_score |-> GetConfidence(response.text[1])])
    /\ IsArrayReply(response) => analysis_results' = analysis_results

\* the group in hand went through the batch path: the elements of an array
\* are matched to the files of the group by the path they name
SentAsBatch ==
    (IsArrayReply(response)
        /\ \A i \in 1..Len(ArrayItems(response)) :
              ConfidenceValid(GetConfidence(ArrayItems(response)[i])))
    => LET items == ArrayItems(response)
           hit(i) == MatchingFile(file_groups[gi], project_root, GetPath(items[i]))
           kept == SelectSeq([i \in 1..Len(items) |-> i], LAMBDA i : hit(i) # 0)
       IN  analysis_results' =
             analysis_results \o
             [k \in 1..Len(kept) |->
                [file_path |-> file_groups[gi][hit(kept[k])].path,
                 confidence_score |-> GetConfidence(items[kept[k]])]]

\* C21: analyze_files partitions its input by the pair (kind, package): every
\* file is in exactly one group, two files share a group exactly when kind and
\* package are both equal; a group of one file goes through the single-file
\* path (object response), a group of two or more through the batch path
\* (array response).
C21_GroupedByKindAndPackage ==
    /\ [](pc \in {"call_llm", "reply", "summary", "recommendations"}
            => PartitionedByKindAndPackage)
    /\ [][pc = "reply" =>
            IF Len(file_groups[gi]) = 1 THEN SentAsSingleFile ELSE SentAsBatch]_vars

\* C21 witness: four files in three groups, two classes of one package
\* analysed as a batch, a class of another package and an interface each on
\* its own, every file with its Finding
C21_Witness ==
    /\ pc = "summary"
    /\ Len(files) = 4 /\ Len(file_groups) = 3
    /\ \E g \in 1..3 : Len(file_groups[g]) = 2
    /\ \E i, j \in 1..4 :
         /\ files[i].file_type = files[j].file_type
         /\ files[i].package # files[j].package
    /\ Len(analysis_results) = 4
    /\ \A i \in 1..4 : \E k \in 1..4 : analysis_results[k].file_path = files[i].path

\* the run over a non-empty list has ended
RunEnded == files # <<>> /\ pc = "done"

\* a completion call is issued in this step
CallIssued == llm_calls' # llm_calls

\* C25: a run over a non-empty list forming G groups issues exactly G
\* per-group completion calls, one per group in group order, all before any
\* summary call; the summary call and the recommendation call, at most one
\* each, are issued only when at least one Finding was produced, otherwise
\* the fixed 'no files were successfully analyzed' texts are used without a
\* call.
C25_CallsPerRun ==
    /\ [][CallIssued =>
            /\ llm_calls' = llm_calls + 1
            /\ \/ pc = "call_llm" /\ gi <= Len(file_groups) /\ llm_calls = gi - 1
               \/ /\ pc = "summary" /\ analysis_results # <<>>
                  /\ llm_calls = Len(file_groups)
               \/ /\ pc = "recommendations" /\ analysis_results # <<>>
                  /\ llm_calls = Len(file_groups) + 1]_vars
    /\ [](RunEnded =>
            llm_calls = Len(file_groups) + (IF analysis_results # <<>> THEN 2 ELSE 0))
    /\ []((RunEnded /\ analysis # NoAnalysis /\ analysis_results = <<>>) =>
            /\ analysis.architecture_summary = NoFilesText
            /\ analysis.recommendations = <<NoFilesText>>)

(***************************************************************************)
(* Properties of generate_report and the command's end (SpecReport).       *)
(***************************************************************************)
IsWhole(f) == f.complete /\ f.kind \in {"report", "error_report"}

\* C11: at every point of generate_report, also after a failed write step
\* or when the process stops between two steps, the destination holds its
\* previous content or a complete report, never a partially written one.
C11_DestinationNeverPartial ==
    wpc # "idle" => (dest = previous \/ IsWhole(dest))

\* C12: when a step of generate_report fails, the error report (project
\* path, number of files, error message) is written to the destination as
\* far as the disk takes it, and only after that attempt generate_report
\* raises the failure to its caller; it never returns normally.
C12_FailureWritesErrorReportThenRaises ==
    /\ wpc = "returned" => (err = "" /\ fallback = "none")
    /\ wpc = "raised" =>
        /\ err # ""
        /\ fallback \in {"written", "write_failed", "open_failed"}
        /\ fallback = "written" =>
            /\ dest.kind = "error_report" /\ dest.complete
            /\ dest.project_path = ranalysis.project_path
            /\ dest.files_analyzed = Len(ranalysis.file_analyses)
            /\ dest.message = err
        /\ fallback = "open_failed" => dest \in {previous, report_content}

\* C12 witness: the rename failed, the error report for two Findings was
\* written over an earlier report and the failure is on its way to the caller
C12_Witness ==
    /\ wpc = "raised" /\ err = "replace" /\ fallback = "written"
    /\ previous = OldReport
    /\ dest.kind = "error_report" /\ dest.message = "replace"
    /\ dest.files_analyzed = 2

\* C13: when generate_report raises, the analyze command ends with a
\* non-zero exit status; it reports success with the output path only when
\* the report is at the destination.
C13_ReportFailureIsProcessError ==
    wpc = "exited" =>
        /\ err # "" => exit_code # 0
        /\ console = "Analysis complete! Report saved" => dest = ReportText(ranalysis)

\* os.replace has put the temporary file in the destination's place
Renamed ==
    \/ err = "verify"
    \/ err = "" /\ wpc \in {"verify", "finally", "returned", "exited"}

\* generate_report has finished, by returning or by raising
ReportFinished == wpc \in {"returned", "raised", "exited"}

\* C26: once the rename of the temporary file onto the destination has
\* succeeded, the destination holds the complete report when generate_report
\* finishes; the error-report fallback never overwrites a complete report
\* already in place, and no temporary sibling file remains.
C26_RenamedReportStays ==
    (Renamed /\ wpc # "stopped")
    => /\ dest = ReportText(ranalysis)
       /\ ReportFinished => temp = Absent

(***************************************************************************)
(* Properties of the walker and the selection (SpecWalk).                  *)
(***************************************************************************)
TotalScore(i) == java_files[i].importance.total_score

\* file i comes before file j in descending score order, equal scores in
\* walker order
Outranks(i, j) ==
    \/ ScoreLess(java_files[j], java_files[i])
    \/ (~ScoreLess(java_files[i], java_files[j]) /\ i < j)

Rank(i) == 1 + Cardinality({j \in 1..Len(java_files) : Outranks(j, i)})

\* C14: with more files than max_files the LLM stage gets exactly the first
\* max_files files in descending total_score order, files of equal score in
\* walker order; with max_files or fewer it gets all files in walker order.
C14_TopFilesStable ==
    kpc = "analyze_files" =>
        IF Len(java_files) > max_files
        THEN /\ Len(selected) = max_files
             /\ \A k \in 1..max_files :
                  \E i \in 1..Len(java_files) :
                      Rank(i) = k /\ selected[k] = java_files[i]
        ELSE selected = java_files

\* C14 witness: three files, the first and the third of equal score below
\* the second, whose total is the same before rounding and greater as a
\* double; two are kept, the second and then the first
C14_Witness ==
    /\ kpc = "analyze_files" /\ Len(java_files) = 3 /\ max_files = 2
    /\ ~ScoreLess(java_files[1], java_files[3]) /\ ~ScoreLess(java_files[3], java_files[1])
    /\ ScoreLess(java_files[1], java_files[2])
    /\ TotalScore(1) = TotalScore(2)
    /\ selected = <<java_files[2], java_files[1]>>

\* the file has a supported extension, no exclude substring in its name, a
\* size within the limit, and can be read
Qualifies(e) ==
    /\ e.name[Len(e.name)] \in {".java", ".test.java"}
    /\ e.stat_ok /\ e.st_size <= MAX_FILE_SIZE
    /\ e.readable

QualifyingEntries == SelectSeq(tree, Qualifies)

\* C17: analyze_project returns a JavaFile for exactly the files with a
\* supported extension, no exclude substring in the name, a size of at most
\* MAX_FILE_SIZE and readable content; files over the size limit or with an
\* I/O error are skipped and all other qualifying files are returned.
C17_WalkerFilter ==
    kpc # "walk" =>
        /\ Len(java_files) = Len(QualifyingEntries)
        /\ \A k \in 1..Len(java_files) :
             /\ java_files[k].path = PathOf(QualifyingEntries[k])
             /\ java_files[k].content = QualifyingEntries[k].content

\* C17 witness: an unreadable file, a file over the limit and a file of
\* exactly MAX_FILE_SIZE bytes: the last one alone is returned
C17_Witness ==
    /\ kpc = "select" /\ Len(tree) = 3
    /\ ~tree[1].readable /\ tree[2].st_size > MAX_FILE_SIZE
    /\ tree[3].st_size = MAX_FILE_SIZE
    /\ Len(java_files) = 1 /\ java_files[1].path = PathOf(tree[3])

(***************************************************************************)
(* Properties of the Gateway (SpecGateway).                                *)
(***************************************************************************)
CallEnded == lpc = "ready" /\ result # "none"

\* C15: one call makes at most 3 attempts: it returns the text of the first
\* attempt that succeeds, waits and tries again after a failed first or
\* second attempt, and raises after a third failure without a fourth attempt.
C15_AtMostThreeAttempts ==
    /\ Len(outcomes) <= 3
    /\ \A i \in 1..(Len(outcomes) - 1) :
         /\ outcomes[i] = "fail"
         /\ attempt_times[i + 1] >= attempt_times[i] + 4
    /\ CallEnded =>
         /\ Len(outcomes) >= 1
         /\ result = "text" <=> outcomes[Len(outcomes)] = "ok"
         /\ result = "RetryError" <=>
                (Len(outcomes) = 3 /\ outcomes[3] = "fail")
    /\ (lpc \in {"attempt", "backoff"} /\ outcomes # <<>>) =>
         outcomes[Len(outcomes)] = "fail"

\* C15 witness: three failed attempts, four seconds apart, and the error
C15_Witness ==
    /\ CallEnded /\ result = "RetryError"
    /\ outcomes = <<"fail", "fail", "fail">>
    /\ attempt_times[3] = attempt_times[1] + 8

\* the calls let through during the period of the limiter that began at r
EnteredInPeriod(r) ==
    {k \in 1..Len(entered) : r <= entered[k].at /\ entered[k].at < r + RATE_LIMIT_PERIOD}

\* the calls let through in the RATE_LIMIT_PERIOD seconds that begin with
\* the k-th call let through
EnteredWithin(k) ==
    {j \in 1..Len(entered) :
        entered[k].at <= entered[j].at /\ entered[j].at < entered[k].at + RATE_LIMIT_PERIOD}

\* C16 as stated: within any RATE_LIMIT_PERIOD seconds at most
\* RATE_LIMIT_CALLS calls are let through; a call over the limit is not
\* rejected: the caller sleeps and the call is then let through.
C16_RateLimitedInAnyPeriod_Original ==
    /\ \A k \in 1..Len(entered) : Cardinality(EnteredWithin(k)) <= RATE_LIMIT_CALLS
    /\ Len(entered) = calls_made - (IF lpc = "rate_limited" THEN 1 ELSE 0)
    /\ lpc = "rate_limited" => sleep_for > 0

\* C16 as amended: in one period of the limiter (the RATE_LIMIT_PERIOD
\* seconds that begin when the limiter starts its count anew) at most
\* RATE_LIMIT_CALLS calls are let through; a call over the limit is not
\* rejected: the caller sleeps until the period has run out and the call is
\* then let through.
C16_RateLimitedBySleeping ==
    /\ \A r \in resets : Cardinality(EnteredInPeriod(r)) <= RATE_LIMIT_CALLS
    /\ \A r1, r2 \in resets : r1 < r2 => r2 - r1 >= RATE_LIMIT_PERIOD
    /\ Len(entered) = calls_made - (IF lpc = "rate_limited" THEN 1 ELSE 0)
    /\ lpc = "rate_limited" =>
         /\ sleep_for > 0
         /\ now + sleep_for = last_reset + RATE_LIMIT_PERIOD
    /\ \A k \in 1..Len(entered) :
         entered[k].slept =>
            /\ entered[k].at \in resets
            /\ Cardinality(EnteredInPeriod(entered[k].at - RATE_LIMIT_PERIOD))
                   = RATE_LIMIT_CALLS

\* C16 witness: the call after RATE_LIMIT_CALLS calls of one period was let
\* through after a sleep, at the moment the period had run out
C16_Witness ==
    /\ Len(entered) = RATE_LIMIT_CALLS + 1
    /\ entered[RATE_LIMIT_CALLS + 1].slept
    /\ entered[RATE_LIMIT_CALLS + 1].at = RATE_LIMIT_PERIOD
    /\ \A k \in 1..RATE_LIMIT_CALLS : entered[k].at < RATE_LIMIT_PERIOD

\* the provider requests sent in the period of the limiter begun at r
RequestsInPeriod(r) ==
    {k \in 1..Len(requests) : r <= requests[k] /\ requests[k] < r + RATE_LIMIT_PERIOD}

\* C23: retry attempts are subject to the rate limit too: counting every
\* request sent to the provider, first attempts and retries alike, no more
\* than RATE_LIMIT_CALLS are sent within one period of the limiter.
C23_RetriesRateLimited ==
    \A r \in resets : Cardinality(RequestsInPeriod(r)) <= RATE_LIMIT_CALLS

====
